---------------------------- MODULE Spec2Model ----------------------------
(***************************************************************************)
(* A model of reqparse (package server): the Server value built by New,    *)
(* the schema renderer formatData (formatAsGo / formatAsRust and their     *)
(* field generators), the printer formatJSON and the request handler       *)
(* handleRequest; and of a running server: Start, the goroutine that waits *)
(* for the context, and handleRequest calls that run at the same time,     *)
(* taken statement by statement.                                           *)
(*                                                                         *)
(* Spec is the package called function by function (as its tests do);      *)
(* ServeSpec is a server that Start runs, for a sample of configurations   *)
(* and requests; LiveSpec is ServeSpec for two of the configurations;      *)
(* MainSpec is the process main.go starts from its command line, from the  *)
(* parsing of the flags to the exit of the process.                        *)
(*                                                                         *)
(* Representation.                                                         *)
(*  - A Go interface{} value is a record whose "kind" is the dynamic type  *)
(*    the type switches of server.go inspect: "nil", "bool", "float64",    *)
(*    "string", "[]interface{}", "map[string]interface{}", and "int" for   *)
(*    the untyped integer constants the package's tests put into values    *)
(*    (a value the JSON decoder never produces).                           *)
(*  - A Go string that holds text is the sequence of its lines, as         *)
(*    strings.Split(s, "\n") gives them; Bytes joins them again.  No key   *)
(*    or string of the model contains a line break, so the two are in      *)
(*    bijection.  JSON text (a request body, json.Marshal's bytes) is the  *)
(*    sequence of its tokens.                                              *)
(*  - TLA+ strings cannot hold the character U+0060 (backtick) that        *)
(*    delimits Go struct tags; Backtick stands for it.                     *)
(*  - Ranging over a Go map visits the keys in an order the runtime        *)
(*    chooses anew for every loop; an operator that ranges over a map      *)
(*    takes the order as an argument, and the action that calls it draws   *)
(*    the order from every permutation of the keys.                        *)
(***************************************************************************)
EXTENDS Integers, Sequences, FiniteSets, TLC

VARIABLES
    srv,      \* the *Server: [port, formatType, pretty, headers]
    op,       \* the operation that ran last
    req,      \* the *http.Request a client sent, NoReq when the package's
              \* functions are called directly
    data,     \* the data argument of formatData and formatJSON; in a request,
              \* handleRequest's local bodyData
    ret,      \* what the last formatData call returned: [str, err]
    prev,     \* what the formatData call before it returned
    jsonBytes,\* the tokens of formatJSON's local jsonBytes
    printed,  \* what the last formatJSON call returned
    decodes,  \* how many times handleRequest called json.Unmarshal
    logged,   \* the log: one entry [event, text] per log.Print / log.Printf
    resp,     \* the response written: [status, contentType, body]
    life,     \* a running Start: its position, the context, the goroutine that
              \* waits for the context, and the http.Server's shutdown flag
    hs,       \* the handleRequest calls of a running server, one per handler
              \* goroutine: position, request, locals and what the call has left
    bodyDatas,\* the storage of the handlers' bodyData
    main      \* the process the command line starts: main's position, the
              \* values of its flags and the code the process exited with

\* The state of a call of the package's functions, and of a running server.
callVars == <<op, req, data, ret, prev, jsonBytes, printed, decodes, logged, resp>>
serveVars == <<life, hs, bodyDatas>>

vars == <<srv, callVars, serveVars, main>>

\* Largest number of keys of a top-level mapping.
MaxKeys == 2

----------------------------------------------------------------------------
(* Go values *)

Backtick == "'"

GoNil == [kind |-> "nil"]
GoBool(b) == [kind |-> "bool", b |-> b]
\* A float64: sign, integer part, and the digits of the fraction without
\* trailing zeros.
GoFloat64(neg, int, frac) == [kind |-> "float64", neg |-> neg, int |-> int, frac |-> frac]
GoString(s) == [kind |-> "string", s |-> s]
GoSlice(elems) == [kind |-> "[]interface{}", elems |-> elems]
GoMap(fields) == [kind |-> "map[string]interface{}", fields |-> fields]
GoInt(i) == [kind |-> "int", i |-> i]
\* A value JSON cannot hold (json.Marshal returns an error for it).
GoChan == [kind |-> "chan"]

EmptyFields == [k \in {} |-> GoNil]

Keys == {"name", "value", "Id"}

\* Values the decoder can produce, as the values of a mapping's keys.
DecodedFieldValues ==
    { GoNil, GoBool(TRUE),
      GoFloat64(FALSE, 123, <<>>), GoFloat64(FALSE, 123, <<4, 5>>),
      GoString("test"), GoString("a<b"),
      GoSlice(<<>>), GoSlice(<<GoFloat64(FALSE, 1, <<>>), GoString("x")>>),
      GoMap([k \in {"nested"} |-> GoString("value")]) }

\* Values only a direct caller can build (server_test.go puts int constants
\* into its test data).
DirectFieldValues == { GoInt(123), GoChan }

\* The values a direct caller puts under the keys of a mapping: one of each
\* kind, as the test data of TestFormatData has them.
CallerFieldValues ==
    { GoNil, GoBool(TRUE), GoFloat64(FALSE, 123, <<4, 5>>), GoString("test"),
      GoSlice(<<GoInt(1), GoInt(2), GoInt(3)>>),
      GoMap([k \in {"nested"} |-> GoString("value")]) } \cup DirectFieldValues

KeySets == {S \in SUBSET Keys : Cardinality(S) <= MaxKeys}

MapsOver(vals) == UNION {{GoMap(f) : f \in [S -> vals]} : S \in KeySets}

\* Every value the decoder produces in the model: the mappings, and the
\* values that are no mapping.
DecodedValues ==
    MapsOver(DecodedFieldValues) \cup DecodedFieldValues
      \cup {GoBool(FALSE), GoFloat64(TRUE, 0, <<5>>)}

\* Every value a direct caller passes.
GoValues ==
    MapsOver(CallerFieldValues) \cup CallerFieldValues \cup DecodedFieldValues

IsMap(v) == v.kind = "map[string]interface{}"

\* The orders in which a range loop can visit the keys of a map.
Orders(S) ==
    {o \in [1..Cardinality(S) -> S] : \A i, j \in 1..Cardinality(S) : o[i] = o[j] => i = j}

RangeOrders(v) == IF IsMap(v) THEN Orders(DOMAIN v.fields) ELSE {<<>>}

(* Text: a Go string as the sequence of its lines (strings.Split(s, "\n")), *)
(* so the empty string is the one empty line.                               *)

EmptyText == <<"">>

\* a + b on strings.
TextCat(a, b) ==
    SubSeq(a, 1, Len(a) - 1) \o <<a[Len(a)] \o b[1]>> \o Tail(b)

RECURSIVE Concat(_)
Concat(texts) ==
    IF texts = <<>> THEN EmptyText ELSE TextCat(Head(texts), Concat(Tail(texts)))

RECURSIVE Repeat(_, _)
Repeat(str, n) == IF n <= 0 THEN "" ELSE str \o Repeat(str, n - 1)

\* The bytes of a text: its lines joined by "\n".
RECURSIVE Bytes(_)
Bytes(text) ==
    IF Len(text) = 1 THEN text[1]
    ELSE text[1] \o "\n" \o Bytes(Tail(text))

----------------------------------------------------------------------------
(* server.go: New *)

FormatTypes == {"", "go", "rust", "java"}

New(port, formatType, pretty, headers) ==
    [port |-> port, formatType |-> formatType, pretty |-> pretty, headers |-> headers]

----------------------------------------------------------------------------
(* server.go: the schema renderer *)

\* The case a type switch over v selects (getGoType and getRustType list the
\* same cases in the same order).
TypeSwitchCase(v) ==
    CASE v.kind = "bool" -> "bool"
      [] v.kind = "float64" -> "float64"
      [] v.kind = "string" -> "string"
      [] v.kind = "[]interface{}" -> "[]interface{}"
      [] v.kind = "map[string]interface{}" -> "map[string]interface{}"
      [] v.kind = "nil" -> "nil"
      [] OTHER -> "default"

\* A type mapping that writes a nested mapping out as an inline declaration.
getGoType_InlineNested(v) ==
    LET c == TypeSwitchCase(v) IN
    CASE c = "bool" -> "bool"
      [] c = "float64" -> "float64"
      [] c = "string" -> "string"
      [] c = "[]interface{}" -> "[]interface{}"
      [] c = "map[string]interface{}" ->
            IF DOMAIN v.fields = {} THEN "map[string]interface{}"
            ELSE "struct { " \o Repeat("field interface{}; ", Cardinality(DOMAIN v.fields)) \o "}"
      [] c = "nil" -> "interface{}"
      [] OTHER -> "interface{}"

getGoType(v) ==
    LET c == TypeSwitchCase(v) IN
    CASE c = "bool" -> "bool"
      [] c = "float64" -> "float64"
      [] c = "string" -> "string"
      [] c = "[]interface{}" -> "[]interface{}"
      [] c = "map[string]interface{}" -> "map[string]interface{}"
      [] c = "nil" -> "interface{}"
      [] OTHER -> "interface{}"

\* A type mapping that gives a number without a fraction an integer token.
getRustType_IntegerToken(v) ==
    LET c == TypeSwitchCase(v) IN
    CASE c = "bool" -> "bool"
      [] c = "float64" -> IF v.frac = <<>> THEN "i64" ELSE "f64"
      [] c = "string" -> "String"
      [] c = "[]interface{}" -> "Vec<serde_json::Value>"
      [] c = "map[string]interface{}" -> "serde_json::Map<String, serde_json::Value>"
      [] c = "nil" -> "Option<serde_json::Value>"
      [] OTHER -> "serde_json::Value"

getRustType(v) ==
    LET c == TypeSwitchCase(v) IN
    CASE c = "bool" -> "bool"
      [] c = "float64" -> "f64"
      [] c = "string" -> "String"
      [] c = "[]interface{}" -> "Vec<serde_json::Value>"
      [] c = "map[string]interface{}" -> "serde_json::Map<String, serde_json::Value>"
      [] c = "nil" -> "Option<serde_json::Value>"
      [] OTHER -> "serde_json::Value"

\* A field line whose identifier is the key made an exported Go name.
ExportedName(key) ==
    CASE key = "name" -> "Name" [] key = "value" -> "Value" [] OTHER -> key
GoFieldLine_Exported(key, fieldType) ==
    << "    " \o ExportedName(key) \o " " \o fieldType \o " " \o Backtick \o "json:\"" \o key \o "\"" \o Backtick,
       "" >>

\* fmt.Sprintf("    %s %s `json:\"%s\"`\n", key, fieldType, key)
GoFieldLine(key, fieldType) ==
    << "    " \o key \o " " \o fieldType \o " " \o Backtick \o "json:\"" \o key \o "\"" \o Backtick,
       "" >>

\* A loop that leaves the keys holding nil out.
RECURSIVE GoFieldsLoop_SkipNil(_, _, _)
GoFieldsLoop_SkipNil(fields, order, result) ==
    IF order = <<>> THEN result
    ELSE LET key == Head(order)
             fieldType == getGoType(fields[key])
         IN GoFieldsLoop_SkipNil(fields, Tail(order),
                IF fields[key].kind = "nil" THEN result
                ELSE TextCat(result, GoFieldLine(key, fieldType)))

\* The loop of generateGoFields: result += one Sprintf per key visited.
RECURSIVE GoFieldsLoop(_, _, _)
GoFieldsLoop(fields, order, result) ==
    IF order = <<>> THEN result
    ELSE LET key == Head(order)
             fieldType == getGoType(fields[key])
         IN GoFieldsLoop(fields, Tail(order), TextCat(result, GoFieldLine(key, fieldType)))

generateGoFields(v, order) ==
    IF IsMap(v) THEN GoFieldsLoop(v.fields, order, EmptyText)
    ELSE <<"    Data interface{} " \o Backtick \o "json:\"data\"" \o Backtick, "">>

formatAsGo(v, order) ==
    [str |-> Concat(<< <<"type GeneratedStruct struct {", "">>,
                       generateGoFields(v, order),
                       <<"}">> >>),
     err |-> "nil"]

\* Field lines with the rename annotation behind the field.
RustFieldLines_RenameAfter(key, fieldType) ==
    << "    " \o key \o ": " \o fieldType \o ",",
       "    #[serde(rename = \"" \o key \o "\")]",
       "" >>

\* fmt.Sprintf("    #[serde(rename = \"%s\")]\n    %s: %s,\n", key, key, fieldType)
RustFieldLines(key, fieldType) ==
    << "    #[serde(rename = \"" \o key \o "\")]",
       "    " \o key \o ": " \o fieldType \o ",",
       "" >>

RECURSIVE RustFieldsLoop(_, _, _)
RustFieldsLoop(fields, order, result) ==
    IF order = <<>> THEN result
    ELSE LET key == Head(order)
             fieldType == getRustType(fields[key])
         IN RustFieldsLoop(fields, Tail(order), TextCat(result, RustFieldLines(key, fieldType)))

\* A generator that types the synthetic field by the value's kind.
generateRustFields_TypedData(v, order) ==
    IF IsMap(v) THEN RustFieldsLoop(v.fields, order, EmptyText)
    ELSE <<"    data: " \o getRustType(v) \o ",", "">>

generateRustFields(v, order) ==
    IF IsMap(v) THEN RustFieldsLoop(v.fields, order, EmptyText)
    ELSE <<"    data: serde_json::Value,", "">>

formatAsRust(v, order) ==
    [str |-> Concat(<< <<"#[derive(Debug, Serialize, Deserialize)]", "struct GeneratedStruct {", "">>,
                       generateRustFields(v, order),
                       <<"}">> >>),
     err |-> "nil"]

\* A formatData that falls back to the go rendering.
formatData_DefaultsToGo(s, v, order) ==
    CASE s.formatType = "rust" -> formatAsRust(v, order)
      [] OTHER -> formatAsGo(v, order)

formatData(s, v, order) ==
    CASE s.formatType = "go" -> formatAsGo(v, order)
      [] s.formatType = "rust" -> formatAsRust(v, order)
      [] OTHER -> [str |-> EmptyText, err |-> "unsupported format type: " \o s.formatType]

----------------------------------------------------------------------------
(* encoding/json, as server.go uses it.  JSON text is the sequence of its   *)
(* tokens; white space is no token.                                         *)

Punct(c) == [t |-> c]
StrTok(lit) == [t |-> "str", lit |-> lit]
NumTok(neg, int, frac) == [t |-> "num", neg |-> neg, int |-> int, frac |-> frac]

\* The keys of the model in the byte order sort.Strings gives them.
KeyOrder == <<"Id", "message", "method", "name", "nested", "path", "value">>

SortedKeys(S) == SelectSeq(KeyOrder, LAMBDA k : k \in S)

\* The encoder's string escaping: with escapeHTML, '<' is written as the escape u003c.
\* "a<b" is the one string of the model that holds such a character.
Quote(s, escapeHTML) ==
    IF escapeHTML /\ s = "a<b" THEN "a\\u003cb" ELSE s

\* The decoder's unquoting of the literals of the model.
Unquote(lit) ==
    IF lit = "a\\u003cb" THEN "a<b" ELSE lit

\* strconv's shortest decimal: no fraction digits beyond the last nonzero one.
RECURSIVE StripZeros(_)
StripZeros(frac) ==
    IF frac # <<>> /\ frac[Len(frac)] = 0
    THEN StripZeros(SubSeq(frac, 1, Len(frac) - 1))
    ELSE frac

\* strconv.ParseFloat of a number literal.
ParseFloat(tok) == GoFloat64(tok.neg, tok.int, StripZeros(tok.frac))

\* A formatting that writes the integer part only.
FormatFloat_Integer(v) == NumTok(v.neg, v.int, <<>>)

\* The encoder's float formatting.
FormatFloat(v) == NumTok(v.neg, v.int, v.frac)

Marshalable(v) == v.kind # "chan"

RECURSIVE MarshalTokens(_, _)
RECURSIVE MarshalElems(_, _)
RECURSIVE MarshalFields(_, _, _)

MarshalElems(elems, escapeHTML) ==
    IF elems = <<>> THEN <<>>
    ELSE MarshalTokens(Head(elems), escapeHTML)
           \o (IF Len(elems) > 1 THEN <<Punct(",")>> ELSE <<>>)
           \o MarshalElems(Tail(elems), escapeHTML)

\* The encoder writes a map's entries in the sorted order of the keys.
MarshalFields(fields, keys, escapeHTML) ==
    IF keys = <<>> THEN <<>>
    ELSE <<StrTok(Quote(Head(keys), escapeHTML)), Punct(":")>>
           \o MarshalTokens(fields[Head(keys)], escapeHTML)
           \o (IF Len(keys) > 1 THEN <<Punct(",")>> ELSE <<>>)
           \o MarshalFields(fields, Tail(keys), escapeHTML)

MarshalTokens(v, escapeHTML) ==
    CASE v.kind = "nil" -> <<Punct("null")>>
      [] v.kind = "bool" -> <<Punct(IF v.b THEN "true" ELSE "false")>>
      [] v.kind = "float64" -> <<FormatFloat(v)>>
      [] v.kind = "int" -> <<NumTok(v.i < 0, IF v.i < 0 THEN -v.i ELSE v.i, <<>>)>>
      [] v.kind = "string" -> <<StrTok(Quote(v.s, escapeHTML))>>
      [] v.kind = "[]interface{}" ->
            <<Punct("[")>> \o MarshalElems(v.elems, escapeHTML) \o <<Punct("]")>>
      [] v.kind = "map[string]interface{}" ->
            <<Punct("{")>>
              \o MarshalFields(v.fields, SortedKeys(DOMAIN v.fields), escapeHTML)
              \o <<Punct("}")>>

RECURSIVE AllMarshalable(_)
AllMarshalable(v) ==
    CASE v.kind = "[]interface{}" -> \A i \in DOMAIN v.elems : AllMarshalable(v.elems[i])
      [] v.kind = "map[string]interface{}" -> \A k \in DOMAIN v.fields : AllMarshalable(v.fields[k])
      [] OTHER -> Marshalable(v)

\* json.Marshal(v): the bytes, or the error for a value JSON cannot hold.
Marshal(v) ==
    IF AllMarshalable(v)
    THEN [bytes |-> MarshalTokens(v, TRUE), err |-> "nil"]
    ELSE [bytes |-> <<>>, err |-> "json: unsupported type: chan int"]

RECURSIVE Digits(_)
Digits(frac) == IF frac = <<>> THEN "" ELSE ToString(Head(frac)) \o Digits(Tail(frac))

\* The bytes of one token.
Lexeme(tok) ==
    CASE tok.t = "str" -> "\"" \o tok.lit \o "\""
      [] tok.t = "num" ->
            (IF tok.neg THEN "-" ELSE "") \o ToString(tok.int)
              \o (IF tok.frac = <<>> THEN "" ELSE "." \o Digits(tok.frac))
      [] OTHER -> tok.t

\* The bytes of compact JSON: the tokens with nothing between them.
RECURSIVE TokText(_)
TokText(toks) == IF toks = <<>> THEN "" ELSE Lexeme(Head(toks)) \o TokText(Tail(toks))

\* json.Indent's appendNewline: a line break, then the indent depth times.
AppendNewline(text, indent, depth) == Append(text, Repeat(indent, depth))

AppendStr(text, str) == [text EXCEPT ![Len(text)] = @ \o str]

\* json.Indent over the tokens of compact JSON: the loop of appendIndent,
\* with its depth and its delayed indent after an opening bracket.
RECURSIVE IndentLoop(_, _, _, _, _)
IndentLoop(toks, indent, depth, needIndent, dst) ==
    IF toks = <<>> THEN dst
    ELSE
      LET tok == Head(toks)
          closing == tok.t \in {"}", "]"}
          enter == needIndent /\ ~closing
          d1 == IF enter THEN depth + 1 ELSE depth
          dst1 == IF enter THEN AppendNewline(dst, indent, d1) ELSE dst
      IN
      CASE tok.t \in {"{", "["} ->
              IndentLoop(Tail(toks), indent, d1, TRUE, AppendStr(dst1, tok.t))
        [] tok.t = "," ->
              IndentLoop(Tail(toks), indent, d1, FALSE,
                         AppendNewline(AppendStr(dst1, ","), indent, d1))
        [] tok.t = ":" ->
              IndentLoop(Tail(toks), indent, d1, FALSE, AppendStr(dst1, ": "))
        [] closing ->
              IF needIndent
              THEN IndentLoop(Tail(toks), indent, depth, FALSE, AppendStr(dst, tok.t))
              ELSE IndentLoop(Tail(toks), indent, depth - 1, FALSE,
                              AppendStr(AppendNewline(dst, indent, depth - 1), tok.t))
        [] OTHER ->
              IndentLoop(Tail(toks), indent, d1, FALSE, AppendStr(dst1, Lexeme(tok)))

\* json.MarshalIndent(v, "", indent): Marshal, then Indent.
MarshalIndent(v, indent) ==
    LET m == Marshal(v) IN
    IF m.err # "nil" THEN [text |-> EmptyText, bytes |-> <<>>, err |-> m.err]
    ELSE [text |-> IndentLoop(m.bytes, indent, 0, FALSE, EmptyText),
          bytes |-> m.bytes, err |-> "nil"]

\* json.Unmarshal into an interface{}: a recursive-descent parse of the
\* tokens.  Each parser returns [ok, v, rest].
ParseFail == [ok |-> FALSE, v |-> GoNil, rest |-> <<>>]

RECURSIVE ParseValue(_)
RECURSIVE ParseElems(_, _)
RECURSIVE ParseMembers(_, _)

\* After '[' or ',': an element, then ',' or ']'.
ParseElems(toks, elems) ==
    LET r == ParseValue(toks) IN
    IF ~r.ok \/ r.rest = <<>> THEN ParseFail
    ELSE IF Head(r.rest).t = "]"
         THEN [ok |-> TRUE, v |-> GoSlice(Append(elems, r.v)), rest |-> Tail(r.rest)]
    ELSE IF Head(r.rest).t = ","
         THEN ParseElems(Tail(r.rest), Append(elems, r.v))
    ELSE ParseFail

\* After '{' or ',': a key, ':', a value, then ',' or '}'.  A key seen again
\* replaces the entry.
ParseMembers(toks, fields) ==
    IF Len(toks) < 2 \/ toks[1].t # "str" \/ toks[2].t # ":" THEN ParseFail
    ELSE
      LET key == Unquote(toks[1].lit)
          r == ParseValue(SubSeq(toks, 3, Len(toks)))
          fields1 == [k \in DOMAIN fields \cup {key} |-> IF k = key THEN r.v ELSE fields[k]]
      IN
      IF ~r.ok \/ r.rest = <<>> THEN ParseFail
      ELSE IF Head(r.rest).t = "}"
           THEN [ok |-> TRUE, v |-> GoMap(fields1), rest |-> Tail(r.rest)]
      ELSE IF Head(r.rest).t = ","
           THEN ParseMembers(Tail(r.rest), fields1)
      ELSE ParseFail

ParseValue(toks) ==
    IF toks = <<>> THEN ParseFail
    ELSE
      LET tok == Head(toks) rest == Tail(toks) IN
      CASE tok.t = "null" -> [ok |-> TRUE, v |-> GoNil, rest |-> rest]
        [] tok.t = "true" -> [ok |-> TRUE, v |-> GoBool(TRUE), rest |-> rest]
        [] tok.t = "false" -> [ok |-> TRUE, v |-> GoBool(FALSE), rest |-> rest]
        [] tok.t = "num" -> [ok |-> TRUE, v |-> ParseFloat(tok), rest |-> rest]
        [] tok.t = "str" -> [ok |-> TRUE, v |-> GoString(Unquote(tok.lit)), rest |-> rest]
        [] tok.t = "[" ->
              IF rest # <<>> /\ Head(rest).t = "]"
              THEN [ok |-> TRUE, v |-> GoSlice(<<>>), rest |-> Tail(rest)]
              ELSE ParseElems(rest, <<>>)
        [] tok.t = "{" ->
              IF rest # <<>> /\ Head(rest).t = "}"
              THEN [ok |-> TRUE, v |-> GoMap(EmptyFields), rest |-> Tail(rest)]
              ELSE ParseMembers(rest, EmptyFields)
        [] OTHER -> ParseFail

\* A decoder that reports no error: what it cannot parse decodes to nil.
Unmarshal_Lenient(body) ==
    LET r == ParseValue(body) IN [v |-> r.v, err |-> "nil"]

\* json.Unmarshal(body, &bodyData): the value, or a syntax error when the
\* bytes are not exactly one JSON value.
Unmarshal(body) ==
    LET r == ParseValue(body) IN
    IF r.ok /\ r.rest = <<>>
    THEN [v |-> r.v, err |-> "nil"]
    ELSE [v |-> GoNil, err |-> "syntax error"]

----------------------------------------------------------------------------
(* server.go: the printer *)

RECURSIVE MaxLineLen(_)
MaxLineLen(lines) ==
    IF lines = <<>> THEN 0
    ELSE LET rest == MaxLineLen(Tail(lines)) IN
         IF Len(Head(lines)) > rest THEN Len(Head(lines)) ELSE rest

\* A printer whose delimiter is as wide as the content, at least 20.
formatJSON_WidthDelimiter(s, v) ==
    IF s.pretty
    THEN
      LET m == MarshalIndent(v, "    ")
          jsonStr == m.text
          maxWidth == MaxLineLen(jsonStr)
          width == IF maxWidth < 20 THEN 20 ELSE maxWidth
          delimiter == <<"", Repeat("=", width)>>
      IN
      IF m.err # "nil" THEN <<"Error formatting JSON: " \o m.err>>
      ELSE Concat(<< delimiter, <<"", "JSON START">>, delimiter, <<"", "">>, jsonStr,
                     <<"", "">>, delimiter, <<"", "JSON END">>, delimiter >>)
    ELSE
      LET m == Marshal(v) IN
      IF m.err # "nil" THEN <<"Error formatting JSON: " \o m.err>>
      ELSE <<"JSON-Body: " \o TokText(m.bytes)>>

formatJSON(s, v) ==
    IF s.pretty
    THEN
      LET m == MarshalIndent(v, "    ")
          jsonStr == m.text
          \* the longest line, which the return value never reads
          maxWidth == MaxLineLen(jsonStr)
          width == IF maxWidth < 20 THEN 20 ELSE maxWidth
          delimiter == <<"", "==========">>
      IN
      IF m.err # "nil" THEN <<"Error formatting JSON: " \o m.err>>
      ELSE Concat(<< delimiter, <<"", "JSON START">>, delimiter, <<"", "">>, jsonStr,
                     <<"", "">>, delimiter, <<"", "JSON END">>, delimiter >>)
    ELSE
      LET m == Marshal(v) IN
      IF m.err # "nil" THEN <<"Error formatting JSON: " \o m.err>>
      ELSE <<"JSON-Body: " \o TokText(m.bytes)>>

----------------------------------------------------------------------------
(* server.go: the request handler *)

Request(method, path, contentType, body, readErr) ==
    [method |-> method, path |-> path, contentType |-> contentType,
     body |-> body, readErr |-> readErr]

\* http.Error(w, msg, code)
HttpError(msg, code) ==
    [status |-> code, contentType |-> "text/plain; charset=utf-8", body |-> <<msg, "">>]

\* An acknowledgment without the path entry.
Acknowledge_NoPath(r) ==
    LET response == GoMap([k \in {"message", "method"} |->
                             CASE k = "message" -> GoString("Request processed successfully")
                               [] k = "method" -> GoString(r.method)])
    IN [status |-> 200, contentType |-> "application/json",
        body |-> TextCat(IndentLoop(MarshalTokens(response, FALSE), "    ", 0, FALSE, EmptyText),
                         <<"", "">>)]

\* The acknowledgment: the encoder (no HTML escaping, indent of four spaces)
\* writes the response map and a line break; the status stays 200.
Acknowledge(r) ==
    LET response == GoMap([k \in {"message", "method", "path"} |->
                             CASE k = "message" -> GoString("Request processed successfully")
                               [] k = "method" -> GoString(r.method)
                               [] k = "path" -> GoString(r.path)])
    IN [status |-> 200, contentType |-> "application/json",
        body |-> TextCat(IndentLoop(MarshalTokens(response, FALSE), "    ", 0, FALSE, EmptyText),
                         <<"", "">>)]

\* A dump taken before the body is read: the body's bytes follow the headers.
DumpRequest_WithBody(r) ==
    << r.method \o " " \o r.path \o " HTTP/1.1",
       "Host: example.com",
       "Content-Type: " \o r.contentType,
       "", TokText(r.body) >>

\* httputil.DumpRequest(r, true) after the body was read to its end.
DumpRequest(r) ==
    << r.method \o " " \o r.path \o " HTTP/1.1",
       "Host: example.com",
       "Content-Type: " \o r.contentType,
       "", "" >>

LogEntry(event, text) == [event |-> event, text |-> text]

\* r.Header.Get("Content-Type") == "application/json"
ContentTypeIsJSON(r) == r.contentType = "application/json"

\* A handler that decodes whatever it read.
BodyPresent_Always(body) == TRUE

\* len(body) > 0
BodyPresent(body) == Len(body) > 0

NoResp == [status |-> 0, contentType |-> "", body |-> EmptyText]
\* No call has returned yet.
NoRet == [str |-> EmptyText, err |-> "none"]
NoText == <<"<none>">>

\* handleRequest(w, r).  order is the order in which the range loop of the
\* field generator visits the keys.  The result holds everything the handler
\* leaves behind: the log entries, the response, and its locals.
handleRequest(s, r, order) ==
    LET received == <<LogEntry("request", <<"Received " \o r.method \o " request to " \o r.path>>)>>
        base == [logged |-> received, resp |-> Acknowledge(r), bodyData |-> GoNil,
                 decodes |-> 0, ret |-> NoRet, printed |-> NoText, jsonBytes |-> <<>>]
    IN
    IF ~ContentTypeIsJSON(r) THEN base
    ELSE IF r.readErr
    THEN [base EXCEPT !.resp = HttpError("Error reading request body", 400)]
    ELSE IF ~BodyPresent(r.body) THEN base
    ELSE
      LET u == Unmarshal(r.body) IN
      IF u.err # "nil"
      THEN [base EXCEPT !.resp = HttpError("Error parsing JSON", 400), !.decodes = 1]
      ELSE
        LET bodyData == u.v
            headerLog == IF s.headers
                         THEN <<LogEntry("headers", TextCat(<<"Headers:", "">>, DumpRequest(r)))>>
                         ELSE <<>>
            text == formatJSON(s, bodyData)
            jsonLog == <<LogEntry("json", text)>>
            decoded == [base EXCEPT !.bodyData = bodyData, !.decodes = 1,
                                    !.printed = text, !.jsonBytes = Marshal(bodyData).bytes,
                                    !.logged = received \o headerLog \o jsonLog]
        IN
        IF s.formatType = "" THEN decoded
        ELSE
          LET f == formatData(s, bodyData, order) IN
          IF f.err # "nil"
          THEN [decoded EXCEPT !.ret = f,
                               !.resp = HttpError("Error formatting data: " \o f.err, 500)]
          ELSE [decoded EXCEPT !.ret = f,
                               !.logged = @ \o <<LogEntry("struct",
                                                  TextCat(<<"Struct format:", "">>, f.str))>>]

----------------------------------------------------------------------------
(* The inputs *)

NoReq == [method |-> "", path |-> "", contentType |-> "", body |-> <<>>, readErr |-> FALSE]

\* Request bodies: the JSON text of every decodable value; texts that are
\* well formed but not in the encoder's form; texts that are not JSON; the
\* empty body.
CanonicalBodies == {MarshalTokens(v, FALSE) : v \in DecodedValues}

VariantBodies ==
    { \* {"value":123.0,"name":"a<b"}: a trailing zero, a written
      \* escape, keys not in sorted order
      << Punct("{"), StrTok("value"), Punct(":"), NumTok(FALSE, 123, <<0>>), Punct(","),
         StrTok("name"), Punct(":"), StrTok("a\\u003cb"), Punct("}") >>,
      \* {"name":1,"name":"test"}: a key twice
      << Punct("{"), StrTok("name"), Punct(":"), NumTok(FALSE, 1, <<>>), Punct(","),
         StrTok("name"), Punct(":"), StrTok("test"), Punct("}") >>,
      \* [1,2,3]
      << Punct("["), NumTok(FALSE, 1, <<>>), Punct(","), NumTok(FALSE, 2, <<>>), Punct(","),
         NumTok(FALSE, 3, <<>>), Punct("]") >>,
      \* -0.50
      << NumTok(TRUE, 0, <<5, 0>>) >>,
      \* {"Id":{"name":[null,{"value":true}]}}
      << Punct("{"), StrTok("Id"), Punct(":"), Punct("{"), StrTok("name"), Punct(":"),
         Punct("["), Punct("null"), Punct(","), Punct("{"), StrTok("value"), Punct(":"),
         Punct("true"), Punct("}"), Punct("]"), Punct("}"), Punct("}") >> }

MalformedBodies ==
    { << Punct("{") >>,
      << Punct("{"), StrTok("name"), Punct("}") >>,
      << Punct("{"), StrTok("name"), Punct(":"), Punct("true"), Punct(","), Punct("}") >>,
      << Punct("["), NumTok(FALSE, 1, <<>>), Punct(","), Punct("]") >>,
      << Punct("true"), Punct("false") >>,
      << Punct("}") >>,
      << Punct("name") >>,
      \* a body of white space only: bytes, but no token of JSON
      << Punct(" ") >> }

Bodies == CanonicalBodies \cup VariantBodies \cup MalformedBodies \cup {<<>>}

SampleBodies ==
    { <<>>, << Punct("{") >>,
      << Punct("{"), StrTok("name"), Punct(":"), StrTok("test"), Punct(","),
         StrTok("value"), Punct(":"), NumTok(FALSE, 123, <<>>), Punct("}") >> }

ContentTypes == {"", "application/json", "text/plain", "application/json; charset=utf-8"}

\* A body of no bytes is http.NoBody, whose Read cannot fail: only a request
\* with bytes to read can end io.ReadAll with an error.
Requests ==
    {Request("POST", "/api/data", "application/json", b, FALSE) : b \in Bodies}
      \cup {Request(m, "/test", ct, b, FALSE) :
              m \in {"GET", "PUT"}, ct \in ContentTypes, b \in SampleBodies}
      \cup {Request("PUT", "/test", ct, b, TRUE) :
              ct \in ContentTypes, b \in SampleBodies \ {<<>>}}

----------------------------------------------------------------------------
(* A running server: what Start and the handler goroutines hold *)

\* Largest number of handleRequest calls that run at the same time.
MaxHandlers == 2

Handlers == 1..MaxHandlers

\* A handler goroutine that holds no request.  order is the order in which
\* the call's range loop visited the keys; trace lists the call's events and
\* logged the entries it wrote to the log; writes counts the responses it
\* wrote.
IdleHandler ==
    [pc |-> "idle", r |-> NoReq, order |-> <<>>, printed |-> NoText, ret |-> NoRet,
     resp |-> NoResp, writes |-> 0, trace |-> <<>>, logged |-> <<>>]

\* Start has not been called.  start is Start's position, ctx the context
\* passed to it, waiter the goroutine Start spawns, inShutdown the flag
\* server.Shutdown sets, shutdowns the number of Shutdown calls, portFree
\* whether the port can be bound, err what Start returned.
NotStarted ==
    [start |-> "none", ctx |-> "live", waiter |-> "none", inShutdown |-> FALSE,
     shutdowns |-> 0, portFree |-> TRUE, err |-> "none"]

\* The requests clients send to a running server: no body, a JSON body that
\* is malformed, one that decodes to a mapping, and one whose body cannot be
\* read.
ServeRequests ==
    { Request("GET", "/test", "", <<>>, FALSE),
      Request("POST", "/api/data", "application/json", << Punct("{") >>, FALSE),
      Request("POST", "/api/data", "application/json",
              << Punct("{"), StrTok("name"), Punct(":"), StrTok("test"), Punct(","),
                 StrTok("value"), Punct(":"), NumTok(FALSE, 123, <<>>), Punct("}") >>, FALSE),
      Request("PUT", "/test", "application/json", << Punct("{") >>, TRUE) }

\* No process: the package is used by a caller other than main.  pc is
\* main's position, exit the code the process ended with (-1 while it runs).
NoMain ==
    [pc |-> "none", port |-> 0, formatType |-> "", pretty |-> FALSE, headers |-> FALSE,
     showVersion |-> FALSE, exit |-> -1]

----------------------------------------------------------------------------
(* The operations *)

Servers == {New(8080, f, p, h) : f \in FormatTypes, p \in BOOLEAN, h \in BOOLEAN}

\* A server built by New, and either a value a caller of the package holds
\* (the tests that call formatData and formatJSON build their servers with
\* headers off) or a request a client has sent.
Init ==
    /\ srv \in Servers
    /\ op = "New"
    /\ \/ req = NoReq /\ data \in GoValues /\ ~srv.headers
       \/ req \in Requests /\ data = GoNil
    /\ ret = NoRet
    /\ prev = NoRet
    /\ jsonBytes = <<>>
    /\ printed = NoText
    /\ decodes = 0
    /\ logged = <<>>
    /\ resp = NoResp
    /\ life = NotStarted
    /\ hs = [i \in Handlers |-> IdleHandler]
    /\ bodyDatas = [i \in Handlers |-> GoNil]
    /\ main = NoMain

\* srv.formatData(data), called directly as TestFormatData does; any number
\* of times on the same value.
FormatData ==
    /\ req = NoReq
    /\ op \in {"New", "formatData"}
    /\ \E order \in RangeOrders(data) :
        /\ op' = "formatData"
        /\ ret' = formatData(srv, data, order)
        /\ prev' = ret
        /\ UNCHANGED <<srv, req, data, jsonBytes, printed, decodes, logged, resp, serveVars, main>>

\* srv.formatJSON(data), called directly as TestFormatJSON does.
FormatJSON ==
    /\ req = NoReq
    /\ op \in {"New", "formatJSON"}
    /\ op' = "formatJSON"
    /\ printed' = formatJSON(srv, data)
    /\ jsonBytes' = Marshal(data).bytes
    /\ UNCHANGED <<srv, req, data, ret, prev, decodes, logged, resp, serveVars, main>>

\* The server handles the request.
HandleRequest ==
    /\ req # NoReq
    /\ op = "New"
    /\ \E order \in RangeOrders(Unmarshal(req.body).v) :
       \E h \in {handleRequest(srv, req, order)} :
        /\ op' = "handleRequest"
        /\ data' = h.bodyData
        /\ ret' = h.ret
        /\ jsonBytes' = h.jsonBytes
        /\ printed' = h.printed
        /\ decodes' = h.decodes
        /\ logged' = h.logged
        /\ resp' = h.resp
        /\ UNCHANGED <<srv, req, prev, serveVars, main>>

Next ==
    \/ FormatData
    \/ FormatJSON
    \/ HandleRequest

Spec == Init /\ [][Next]_vars

\* The servers that are run: without a format, with a format and with an
\* unsupported one, each with the headers and pretty options off and on.
ServeServers == {s \in Servers : s.formatType # "go" /\ s.pretty = s.headers}

----------------------------------------------------------------------------
(* server.go: Start, and handleRequest statement by statement *)

\* var bodyData interface{}: a local of the call, so every handler has its own.
\* A handler that keeps the decoded value in one place for all calls.
BodyDataSlot_Shared(i) == 1

BodyDataSlot(i) == i

\* The handler's response writer: the first write fixes the status and the
\* headers, a later write only adds to the body.
WriteResponse(h, w) ==
    [h EXCEPT !.resp = IF h.writes = 0 THEN w ELSE [h.resp EXCEPT !.body = TextCat(@, w.body)],
              !.writes = @ + 1,
              !.trace = Append(@, "response")]

\* The stage of handleRequest that follows a stage, for a body that decoded.
\* A handler that renders the struct before it logs the JSON body.
NextStage_RenderFirst(stage, s) ==
    CASE stage = "decode" ->
            IF s.formatType # "" THEN "render" ELSE IF s.headers THEN "headers" ELSE "json"
      [] stage = "render" -> IF s.headers THEN "headers" ELSE "json"
      [] stage = "headers" -> "json"
      [] stage = "json" -> "respond"

NextStage(stage, s) ==
    CASE stage = "decode" -> IF s.headers THEN "headers" ELSE "json"
      [] stage = "headers" -> "json"
      [] stage = "json" -> IF s.formatType # "" THEN "render" ELSE "respond"
      [] stage = "render" -> "respond"

\* Where the handler goes after http.Error for a formatting error.
\* A handler without the return statement: it goes on to the acknowledgment.
AfterFormatError_NoReturn == "respond"

\* return
AfterFormatError == "done"

\* <-ctx.Done()
\* A context whose Done channel is never closed.
CtxDone_Never(ctx) == FALSE

CtxDone(ctx) == ctx = "cancelled"

\* The server accepts connections: ListenAndServe is in its accept loop and
\* Shutdown has not been called.
Serving == life.start = "serving" /\ ~life.inShutdown

\* The handler has answered with "Error parsing JSON".
ParseErrorSent(h) == h.pc = "done" /\ h.resp = HttpError("Error parsing JSON", 400)

\* The http.Server accepts a request and calls handleRequest in a goroutine.
Accept(i) ==
    /\ Serving
    /\ hs[i].pc \in {"idle", "done"}
    /\ \E r \in ServeRequests :
         hs' = [hs EXCEPT ![i] = [IdleHandler EXCEPT !.pc = "start", !.r = r]]
    /\ UNCHANGED <<srv, main, callVars, life, bodyDatas>>

\* log.Printf("Received ..."); var bodyData interface{}
LogRequest(i) ==
    /\ hs[i].pc = "start"
    /\ hs' = [hs EXCEPT ![i] =
                [@ EXCEPT !.pc = "read", !.trace = Append(@, "request"),
                          !.logged = Append(@, LogEntry("request",
                              <<"Received " \o hs[i].r.method \o " request to " \o hs[i].r.path>>))]]
    /\ bodyDatas' = [bodyDatas EXCEPT ![BodyDataSlot(i)] = GoNil]
    /\ UNCHANGED <<srv, main, callVars, life>>

\* The Content-Type test, io.ReadAll and the test of the body's length.
ReadBody(i) ==
    /\ hs[i].pc = "read"
    /\ hs' = [hs EXCEPT ![i] =
                IF ~ContentTypeIsJSON(@.r) THEN [@ EXCEPT !.pc = "respond"]
                ELSE IF @.r.readErr
                THEN [WriteResponse(@, HttpError("Error reading request body", 400))
                        EXCEPT !.pc = "done"]
                ELSE IF ~BodyPresent(@.r.body) THEN [@ EXCEPT !.pc = "respond"]
                ELSE [@ EXCEPT !.pc = "decode"]]
    /\ UNCHANGED <<srv, main, callVars, life, bodyDatas>>

\* json.Unmarshal(body, &bodyData)
Decode(i) ==
    /\ hs[i].pc = "decode"
    /\ \E u \in {Unmarshal(hs[i].r.body)} :
         IF u.err # "nil"
         THEN /\ hs' = [hs EXCEPT ![i] =
                          [WriteResponse(@, HttpError("Error parsing JSON", 400))
                             EXCEPT !.pc = "done"]]
              /\ UNCHANGED bodyDatas
         ELSE /\ hs' = [hs EXCEPT ![i] =
                          [@ EXCEPT !.pc = NextStage("decode", srv),
                                    !.trace = Append(@, "decode")]]
              /\ bodyDatas' = [bodyDatas EXCEPT ![BodyDataSlot(i)] = u.v]
    /\ UNCHANGED <<srv, main, callVars, life>>

\* log.Printf("Headers:\n%s", httputil.DumpRequest(r, true))
DumpHeaders(i) ==
    /\ hs[i].pc = "headers"
    /\ hs' = [hs EXCEPT ![i] =
                [@ EXCEPT !.pc = NextStage("headers", srv),
                          !.trace = Append(@, "headers"),
                          !.logged = Append(@, LogEntry("headers",
                              TextCat(<<"Headers:", "">>, DumpRequest(hs[i].r))))]]
    /\ UNCHANGED <<srv, main, callVars, life, bodyDatas>>

\* log.Print(s.formatJSON(bodyData))
LogJSON(i) ==
    /\ hs[i].pc = "json"
    /\ \E text \in {formatJSON(srv, bodyDatas[BodyDataSlot(i)])} :
         hs' = [hs EXCEPT ![i] =
                  [@ EXCEPT !.pc = NextStage("json", srv),
                            !.trace = Append(@, "json"),
                            !.printed = text,
                            !.logged = Append(@, LogEntry("json", text))]]
    /\ UNCHANGED <<srv, main, callVars, life, bodyDatas>>

\* s.formatData(bodyData), then http.Error and return, or the struct logged.
Render(i) ==
    /\ hs[i].pc = "render"
    /\ \E order \in RangeOrders(bodyDatas[BodyDataSlot(i)]) :
       \E f \in {formatData(srv, bodyDatas[BodyDataSlot(i)], order)} :
         hs' = [hs EXCEPT ![i] =
                  IF f.err # "nil"
                  THEN [WriteResponse([@ EXCEPT !.ret = f, !.order = order],
                                      HttpError("Error formatting data: " \o f.err, 500))
                          EXCEPT !.pc = AfterFormatError]
                  ELSE [@ EXCEPT !.pc = NextStage("render", srv),
                                 !.ret = f, !.order = order,
                                 !.trace = Append(@, "struct"),
                                 !.logged = Append(@, LogEntry("struct",
                                     TextCat(<<"Struct format:", "">>, f.str)))]]
    /\ UNCHANGED <<srv, main, callVars, life, bodyDatas>>

\* The acknowledgment is encoded to the response writer; the call returns.
Respond(i) ==
    /\ hs[i].pc = "respond"
    /\ hs' = [hs EXCEPT ![i] = [WriteResponse(@, Acknowledge(@.r)) EXCEPT !.pc = "done"]]
    /\ UNCHANGED <<srv, main, callVars, life, bodyDatas>>

\* A statement of a handleRequest call.
HandlerStep(i) ==
    \/ LogRequest(i)
    \/ ReadBody(i)
    \/ Decode(i)
    \/ DumpHeaders(i)
    \/ LogJSON(i)
    \/ Render(i)
    \/ Respond(i)

\* Start builds the mux and the http.Server and spawns the goroutine that
\* waits for the context.
StartCalled ==
    /\ life.start = "called"
    /\ life' = [life EXCEPT !.start = "spawned", !.waiter = "waiting"]
    /\ UNCHANGED <<srv, main, callVars, hs, bodyDatas>>

\* server.ListenAndServe(): ErrServerClosed when Shutdown has been called,
\* the error of net.Listen when the port cannot be bound.
Listen ==
    /\ life.start = "spawned"
    /\ life' = IF life.inShutdown
               THEN [life EXCEPT !.start = "returned", !.err = "http: Server closed"]
               ELSE IF ~life.portFree
               THEN [life EXCEPT !.start = "returned", !.err = "listen: address already in use"]
               ELSE [life EXCEPT !.start = "bound"]
    /\ UNCHANGED <<srv, main, callVars, hs, bodyDatas>>

\* ListenAndServe's Serve(ln): it registers the listener, which fails with
\* ErrServerClosed once Shutdown has been called, and enters the accept loop.
Serve ==
    /\ life.start = "bound"
    /\ life' = IF life.inShutdown
               THEN [life EXCEPT !.start = "returned", !.err = "http: Server closed"]
               ELSE [life EXCEPT !.start = "serving"]
    /\ UNCHANGED <<srv, main, callVars, hs, bodyDatas>>

\* The owner of the context cancels it (main on SIGINT or SIGTERM, the test
\* by its timeout).
Cancel ==
    /\ life.start # "none"
    /\ life.ctx = "live"
    /\ life' = [life EXCEPT !.ctx = "cancelled"]
    /\ UNCHANGED <<srv, main, callVars, hs, bodyDatas>>

\* The goroutine: <-ctx.Done(), then server.Shutdown(context.Background()),
\* which sets the shutdown flag and closes the listener.
Shutdown ==
    /\ life.waiter = "waiting"
    /\ CtxDone(life.ctx)
    /\ life' = [life EXCEPT !.waiter = "draining", !.inShutdown = TRUE, !.shutdowns = @ + 1]
    /\ UNCHANGED <<srv, main, callVars, hs, bodyDatas>>

\* The accept loop finds the listener closed: ListenAndServe, and with it
\* Start, returns ErrServerClosed.
ServeReturns ==
    /\ life.start = "serving"
    /\ life.inShutdown
    /\ life' = [life EXCEPT !.start = "returned", !.err = "http: Server closed"]
    /\ UNCHANGED <<srv, main, callVars, hs, bodyDatas>>

\* Shutdown returns nil once no handler is running, and the goroutine ends.
ShutdownReturns ==
    /\ life.waiter = "draining"
    /\ \A i \in Handlers : hs[i].pc \in {"idle", "done"}
    /\ life' = [life EXCEPT !.waiter = "exited"]
    /\ UNCHANGED <<srv, main, callVars, hs, bodyDatas>>

\* A server built by New, on a port that is free or taken, and Start called
\* with a context that is live or already cancelled.
ServeInit ==
    /\ srv \in ServeServers
    /\ op = "Start" /\ req = NoReq /\ data = GoNil
    /\ ret = NoRet /\ prev = NoRet /\ jsonBytes = <<>> /\ printed = NoText
    /\ decodes = 0 /\ logged = <<>> /\ resp = NoResp
    /\ \E free \in BOOLEAN, ctx \in {"live", "cancelled"} :
         life = [NotStarted EXCEPT !.start = "called", !.portFree = free, !.ctx = ctx]
    /\ hs = [i \in Handlers |-> IdleHandler]
    /\ bodyDatas = [i \in Handlers |-> GoNil]
    /\ main = NoMain

ServeNext ==
    \/ StartCalled
    \/ Listen
    \/ Serve
    \/ Cancel
    \/ Shutdown
    \/ ServeReturns
    \/ ShutdownReturns
    \/ \E i \in Handlers : Accept(i)
    \/ \E i \in Handlers : HandlerStep(i)

\* The handler goroutine is in a call that has not returned: exactly then a
\* statement of the call can be taken.
Running(i) == hs[i].pc \notin {"idle", "done"}

\* Weak fairness of the handler's statements, WF_vars(HandlerStep(i)), with
\* the condition under which a statement can be taken written out.
HandlerFair(i) == []<>(~Running(i)) \/ []<><<HandlerStep(i)>>_vars

\* The Go scheduler runs every goroutine that can run: Start's own, the
\* goroutine that waits for the context, and every handler.  Whether the
\* context is cancelled and whether requests arrive is up to the environment.
ServeSpec ==
    /\ ServeInit
    /\ [][ServeNext]_vars
    /\ WF_vars(StartCalled \/ Listen \/ Serve \/ ServeReturns)
    /\ WF_vars(Shutdown \/ ShutdownReturns)
    /\ \A i \in Handlers : HandlerFair(i)

\* The servers whose runs are followed to their end: one with an unsupported
\* format, headers and pretty on, and one with a format and both off.
LiveServers == {New(8080, "java", TRUE, TRUE), New(8080, "rust", FALSE, FALSE)}

LiveInit == ServeInit /\ srv \in LiveServers

\* ServeSpec for the servers of LiveServers.
LiveSpec ==
    /\ LiveInit
    /\ [][ServeNext]_vars
    /\ WF_vars(StartCalled \/ Listen \/ Serve \/ ServeReturns)
    /\ WF_vars(Shutdown \/ ShutdownReturns)
    /\ \A i \in Handlers : HandlerFair(i)

----------------------------------------------------------------------------
(* main.go: the process the command line starts *)

\* var srv *Server before server.New has returned.
NoServer == [port |-> 0, formatType |-> "<nil>", pretty |-> FALSE, headers |-> FALSE]

\* The keys of the validFormats map.
\* A map that also lists a format formatData has no rendering for.
validFormats_WithJava == {"go", "rust", "java"}

validFormats == {"go", "rust"}

\* The values the flags can have after flag.Parse(): any -format string, the
\* -pretty and -headers options both off or both on, -version off or on, and
\* the default port.
MainFlags ==
    {[NoMain EXCEPT !.pc = "flags", !.port = 8080, !.formatType = f, !.pretty = p,
                    !.headers = p, !.showVersion = v] :
        f \in FormatTypes, p \in BOOLEAN, v \in BOOLEAN}

\* The process runs: neither main has returned nor log.Fatalf has ended it.
Alive == main.exit = -1

\* if *showVersion: the version is printed and main returns.
ShowVersion ==
    /\ main.pc = "flags"
    /\ main.showVersion
    /\ main' = [main EXCEPT !.pc = "exited", !.exit = 0]
    /\ UNCHANGED <<srv, callVars, serveVars>>

\* The format type is validated if one was given: log.Fatalf ends the
\* process with status 1 when the validFormats map does not list it.
ValidateFormat ==
    /\ main.pc = "flags"
    /\ ~main.showVersion
    /\ main' = IF main.formatType # "" /\ main.formatType \notin validFormats
               THEN [main EXCEPT !.pc = "exited", !.exit = 1]
               ELSE [main EXCEPT !.pc = "validated"]
    /\ UNCHANGED <<srv, callVars, serveVars>>

\* srv := server.New(*port, *formatType, *pretty, *headers)
CreateServer ==
    /\ main.pc = "validated"
    /\ srv' = New(main.port, main.formatType, main.pretty, main.headers)
    /\ main' = [main EXCEPT !.pc = "created"]
    /\ UNCHANGED <<callVars, serveVars>>

\* The context is made, the goroutine that waits for SIGINT or SIGTERM is
\* spawned (a signal may have come by the time Start is called) and
\* srv.Start(ctx) is called, on a port that is free or taken.
CallStart ==
    /\ main.pc = "created"
    /\ \E free \in BOOLEAN, ctx \in {"live", "cancelled"} :
         life' = [NotStarted EXCEPT !.start = "called", !.portFree = free, !.ctx = ctx]
    /\ main' = [main EXCEPT !.pc = "start"]
    /\ UNCHANGED <<srv, callVars, hs, bodyDatas>>

\* srv.Start(ctx) has returned: its error is never nil, and log.Fatalf ends
\* the process with status 1, whatever the other goroutines are doing.
StartReturned ==
    /\ main.pc = "start"
    /\ life.start = "returned"
    /\ main' = [main EXCEPT !.pc = "exited", !.exit = IF life.err # "nil" THEN 1 ELSE 0]
    /\ UNCHANGED <<srv, callVars, serveVars>>

\* The process after flag.Parse(), with no server yet.
MainInit ==
    /\ srv = NoServer
    /\ op = "main" /\ req = NoReq /\ data = GoNil
    /\ ret = NoRet /\ prev = NoRet /\ jsonBytes = <<>> /\ printed = NoText
    /\ decodes = 0 /\ logged = <<>> /\ resp = NoResp
    /\ life = NotStarted
    /\ hs = [i \in Handlers |-> IdleHandler]
    /\ bodyDatas = [i \in Handlers |-> GoNil]
    /\ main \in MainFlags

\* A statement of main, or a step of the server main started: the goroutines
\* of the server run only while the process does.
MainNext ==
    \/ ShowVersion
    \/ ValidateFormat
    \/ CreateServer
    \/ CallStart
    \/ StartReturned
    \/ Alive /\ StartCalled
    \/ Alive /\ Listen
    \/ Alive /\ Serve
    \/ Alive /\ Cancel
    \/ Alive /\ Shutdown
    \/ Alive /\ ServeReturns
    \/ Alive /\ ShutdownReturns
    \/ Alive /\ \E i \in Handlers : Accept(i)
    \/ Alive /\ \E i \in Handlers : LogRequest(i)
    \/ Alive /\ \E i \in Handlers : ReadBody(i)
    \/ Alive /\ \E i \in Handlers : Decode(i)
    \/ Alive /\ \E i \in Handlers : DumpHeaders(i)
    \/ Alive /\ \E i \in Handlers : LogJSON(i)
    \/ Alive /\ \E i \in Handlers : Render(i)
    \/ Alive /\ \E i \in Handlers : Respond(i)

MainSpec == MainInit /\ [][MainNext]_vars

----------------------------------------------------------------------------
(* What the renderer is required to produce, stated apart from the code *)

\* The six kinds a decoded JSON value can have.
JSONKinds ==
    {"nil", "bool", "float64", "string", "[]interface{}", "map[string]interface{}"}

\* The type-token table of the two targets.
GoTokenOf(kind) ==
    CASE kind = "bool" -> "bool"
      [] kind = "float64" -> "float64"
      [] kind = "string" -> "string"
      [] kind = "[]interface{}" -> "[]interface{}"
      [] kind = "map[string]interface{}" -> "map[string]interface{}"
      [] kind = "nil" -> "interface{}"

RustTokenOf(kind) ==
    CASE kind = "bool" -> "bool"
      [] kind = "float64" -> "f64"
      [] kind = "string" -> "String"
      [] kind = "[]interface{}" -> "Vec<serde_json::Value>"
      [] kind = "map[string]interface{}" -> "serde_json::Map<String, serde_json::Value>"
      [] kind = "nil" -> "Option<serde_json::Value>"

GoTokens == {GoTokenOf(kind) : kind \in JSONKinds}
RustTokens == {RustTokenOf(kind) : kind \in JSONKinds} \cup {"serde_json::Value"}

\* The field-line templates.
GoTemplate(k, t) ==
    "    " \o k \o " " \o t \o " " \o Backtick \o "json:\"" \o k \o "\"" \o Backtick
RustRenameTemplate(k) == "    #[serde(rename = \"" \o k \o "\")]"
RustTemplate(k, t) == "    " \o k \o ": " \o t \o ","

\* A formatData call on a recognized target has returned.
Rendered == ret.err = "nil"
RenderedMap == Rendered /\ IsMap(data)

\* The lines formatData returned between the wrapper's opening line(s) and
\* its closing brace.
BodyLines ==
    IF srv.formatType = "go" THEN SubSeq(ret.str, 2, Len(ret.str) - 1)
    ELSE SubSeq(ret.str, 3, Len(ret.str) - 1)

\* Of these, the field lines: every line for go, every second line for rust
\* (the other lines are the rename annotations).
FieldLines ==
    IF srv.formatType = "go" THEN BodyLines
    ELSE [j \in 1..(Len(BodyLines) \div 2) |-> BodyLines[2 * j]]

IsFieldLineOf(line, k) ==
    IF srv.formatType = "go" THEN \E t \in GoTokens : line = GoTemplate(k, t)
    ELSE \E t \in RustTokens : line = RustTemplate(k, t)

\* C1: for a mapping and either target, formatData returns exactly one field
\* line per key: as many field lines as keys, and for every key exactly one
\* line that is this key's (so none for the empty mapping).
C1_OneFieldLinePerKey ==
    RenderedMap =>
        /\ Len(FieldLines) = Cardinality(DOMAIN data.fields)
        /\ Len(BodyLines) = (IF srv.formatType = "go" THEN 1 ELSE 2) * Len(FieldLines)
        /\ \A k \in DOMAIN data.fields :
             Cardinality({i \in DOMAIN FieldLines : IsFieldLineOf(FieldLines[i], k)}) = 1

\* A request whose body decoded to a mapping of two keys was rendered for rust.
C1_Witness ==
    /\ op = "handleRequest" /\ RenderedMap /\ srv.formatType = "rust"
    /\ Cardinality(DOMAIN data.fields) = 2
    /\ Len(FieldLines) = 2

Returned == ret # NoRet

\* C3: on a server whose formatType is neither "go" nor "rust", formatData
\* returns the unsupported-format error and the empty string, for every value.
C3_UnsupportedTarget ==
    (Returned /\ srv.formatType \notin {"go", "rust"}) =>
        /\ ret.err = "unsupported format type: " \o srv.formatType
        /\ Bytes(ret.str) = ""

\* formatData was called on a mapping with the empty formatType.
C3_Witness ==
    /\ op = "formatData" /\ srv.formatType = "" /\ Returned
    /\ IsMap(data) /\ Cardinality(DOMAIN data.fields) = 2

\* C4: two formatData calls on the same value and the same server return
\* byte-identical text, also for a mapping of two or more keys.
C4_Deterministic ==
    (op = "formatData" /\ prev # NoRet) =>
        /\ ret.err = prev.err
        /\ Bytes(ret.str) = Bytes(prev.str)

\* C5: for a value that is no mapping, formatData on a recognized target
\* returns the wrapper with the one synthetic field of the generic type, the
\* same text whatever the value is.
C5_SyntheticField ==
    (Rendered /\ ~IsMap(data)) =>
        ret.str = (IF srv.formatType = "go"
                   THEN << "type GeneratedStruct struct {",
                           "    Data interface{} " \o Backtick \o "json:\"data\"" \o Backtick,
                           "}" >>
                   ELSE << "#[derive(Debug, Serialize, Deserialize)]",
                           "struct GeneratedStruct {",
                           "    data: serde_json::Value,",
                           "}" >>)

\* A request whose body decoded to a sequence was rendered for rust.
C5_Witness ==
    /\ op = "handleRequest" /\ Rendered /\ srv.formatType = "rust"
    /\ data.kind = "[]interface{}" /\ data.elems # <<>>

\* The token of a value: the table's for the six JSON kinds, the default
\* branch's for any other.
GoTokenFor(v) == IF v.kind \in JSONKinds THEN GoTokenOf(v.kind) ELSE "interface{}"

C7_RustAnnotations ==
    (Rendered /\ srv.formatType = "rust") =>
        /\ ret.str[1] = "#[derive(Debug, Serialize, Deserialize)]"
        /\ ret.str[2] = "struct GeneratedStruct {"
        /\ ret.str[Len(ret.str)] = "}"
        /\ IsMap(data) =>
              LET keys == DOMAIN data.fields
                  n == Cardinality(keys)
              IN
              /\ Len(BodyLines) = 2 * n
              /\ \A j \in 1..n :
                    \E k \in keys :
                        /\ BodyLines[2 * j - 1] = RustRenameTemplate(k)
                        /\ \E t \in RustTokens : BodyLines[2 * j] = RustTemplate(k, t)
              /\ \A k \in keys :
                    Cardinality({i \in DOMAIN BodyLines :
                                    BodyLines[i] = RustRenameTemplate(k)}) = 1

\* A decoded mapping of two keys was rendered for rust by a direct call.
C7_Witness ==
    /\ op = "formatData" /\ RenderedMap /\ srv.formatType = "rust"
    /\ Cardinality(DOMAIN data.fields) = 2

\* C8: handleRequest calls the decoder only for a request whose Content-Type
\* is application/json and whose body has bytes; a request with no body
\* bytes, or with another content type, is no error: nothing is decoded,
\* printed or rendered, only the request line is logged, and the response is
\* the acknowledgment with status 200.
C8_DecodeOnlyJSONBody ==
    op = "handleRequest" =>
        /\ decodes > 0 => (req.contentType = "application/json" /\ Len(req.body) > 0)
        /\ (Len(req.body) = 0 \/ req.contentType # "application/json") =>
              /\ decodes = 0
              /\ printed = NoText /\ ret = NoRet /\ data = GoNil
              /\ Len(logged) = 1 /\ logged[1].event = "request"
              /\ resp.status = 200
              /\ resp.contentType = "application/json"
              /\ resp.body[2] = "    \"message\": \"Request processed successfully\","

\* A request with Content-Type application/json and no body bytes was
\* handled by a server with a format and the headers option.
C8_Witness ==
    /\ op = "handleRequest"
    /\ req.contentType = "application/json" /\ req.body = <<>>
    /\ srv.formatType = "go" /\ srv.headers
    /\ resp.status = 200

\* handleRequest decoded the body and printed it.
DecodedAndPrinted == op = "handleRequest" /\ printed # NoText

\* C9: what handleRequest prints in compact mode for a decoded body is the
\* label and JSON text that decodes to the value the body decoded to.
C9_RoundTrip ==
    (DecodedAndPrinted /\ ~srv.pretty) =>
        /\ data = Unmarshal(req.body).v
        /\ printed = <<"JSON-Body: " \o TokText(jsonBytes)>>
        /\ Unmarshal(jsonBytes) = [v |-> data, err |-> "nil"]

\* A body that is not in the encoder's form (a trailing zero, keys out of
\* order) was decoded and printed in compact mode.
C9_Witness ==
    /\ DecodedAndPrinted /\ ~srv.pretty
    /\ req.body # jsonBytes
    /\ IsMap(data) /\ Cardinality(DOMAIN data.fields) = 2

\* JSON text written from the value's structure: compact, and indented by
\* four spaces per level of nesting.
Scalar(v) == TokText(MarshalTokens(v, TRUE))
QuotedKey(k) == "\"" \o k \o "\""
Indent4(depth) == Repeat("    ", depth)

RECURSIVE CompactValue(_)
RECURSIVE CompactElems(_)
RECURSIVE CompactMembers(_, _)
CompactElems(elems) ==
    IF elems = <<>> THEN ""
    ELSE CompactValue(Head(elems)) \o (IF Len(elems) > 1 THEN "," ELSE "")
           \o CompactElems(Tail(elems))
CompactMembers(fields, keys) ==
    IF keys = <<>> THEN ""
    ELSE QuotedKey(Head(keys)) \o ":" \o CompactValue(fields[Head(keys)])
           \o (IF Len(keys) > 1 THEN "," ELSE "") \o CompactMembers(fields, Tail(keys))
CompactValue(v) ==
    CASE v.kind = "[]interface{}" -> "[" \o CompactElems(v.elems) \o "]"
      [] v.kind = "map[string]interface{}" ->
            "{" \o CompactMembers(v.fields, SortedKeys(DOMAIN v.fields)) \o "}"
      [] OTHER -> Scalar(v)

\* The lines of an item at the given depth: the first line behind the lead
\* (the indentation, and the key for a member), a comma behind the last line
\* when another item follows.
ItemLines(lead, lines, more) ==
    LET led == <<lead \o lines[1]>> \o Tail(lines) IN
    IF more THEN [led EXCEPT ![Len(led)] = @ \o ","] ELSE led

RECURSIVE PrettyValue(_, _)
RECURSIVE PrettyElems(_, _)
RECURSIVE PrettyMembers(_, _, _)
PrettyElems(elems, depth) ==
    IF elems = <<>> THEN <<>>
    ELSE ItemLines(Indent4(depth), PrettyValue(Head(elems), depth), Len(elems) > 1)
           \o PrettyElems(Tail(elems), depth)
PrettyMembers(fields, keys, depth) ==
    IF keys = <<>> THEN <<>>
    ELSE ItemLines(Indent4(depth) \o QuotedKey(Head(keys)) \o ": ",
                   PrettyValue(fields[Head(keys)], depth), Len(keys) > 1)
           \o PrettyMembers(fields, Tail(keys), depth)
PrettyValue(v, depth) ==
    CASE v.kind = "[]interface{}" ->
            IF v.elems = <<>> THEN <<"[]">>
            ELSE <<"[">> \o PrettyElems(v.elems, depth + 1) \o <<Indent4(depth) \o "]">>
      [] v.kind = "map[string]interface{}" ->
            IF DOMAIN v.fields = {} THEN <<"{}">>
            ELSE <<"{">> \o PrettyMembers(v.fields, SortedKeys(DOMAIN v.fields), depth + 1)
                   \o <<Indent4(depth) \o "}">>
      [] OTHER -> <<Scalar(v)>>

\* formatJSON returned the print of a value JSON can hold.
Printed == printed # NoText /\ AllMarshalable(data)

----------------------------------------------------------------------------
(* What a running server is required to do *)

\* The handler holds a request.
Busy(h) == h.pc # "idle"
Done(h) == h.pc = "done"

\* The events of the entries a call has written to the log.
RECURSIVE EventsOf(_)
EventsOf(entries) ==
    IF entries = <<>> THEN <<>> ELSE <<Head(entries).event>> \o EventsOf(Tail(entries))

\* A request with Content-Type application/json whose body has bytes that
\* are no JSON text, and can be read.
Malformed(r) ==
    r.contentType = "application/json" /\ ~r.readErr /\ r.body \in MalformedBodies

\* C11: a request with JSON content type and a body that is not well-formed
\* JSON is answered with status 400 and "Error parsing JSON", once; nothing
\* but its request line is logged (no headers, no JSON body, no struct), the
\* acknowledgment is not written, and the server accepts requests afterwards.
C11_ParseErrorTerminal ==
    \A i \in Handlers :
        (Busy(hs[i]) /\ Malformed(hs[i].r)) =>
            /\ \A j \in DOMAIN hs[i].logged : hs[i].logged[j].event = "request"
            /\ hs[i].printed = NoText /\ hs[i].ret = NoRet
            /\ hs[i].resp.status \in {0, 400}
            /\ Done(hs[i]) =>
                  /\ hs[i].resp = HttpError("Error parsing JSON", 400)
                  /\ hs[i].resp.body # Acknowledge(hs[i].r).body
                  /\ hs[i].writes = 1
                  /\ EventsOf(hs[i].logged) = <<"request">>
                  /\ Serving => ENABLED Accept(i)

\* A handler has answered a malformed body with the parse error on a server
\* with a format and headers on; the server is serving, and another handler
\* is at the first statement of a request.
C11_Witness ==
    \E i, j \in Handlers :
        /\ ParseErrorSent(hs[i]) /\ Malformed(hs[i].r)
        /\ srv.headers /\ srv.formatType = "rust"
        /\ Serving /\ hs[j].pc = "start"

----------------------------------------------------------------------------
(* What handleRequest is required to answer and to log *)

Handled == op = "handleRequest"

\* The request carried a JSON body that the decoder accepts.
Decodable(r) ==
    /\ r.contentType = "application/json" /\ ~r.readErr
    /\ r.body \in CanonicalBodies \cup VariantBodies

\* How many entries of the log have the event.
Count(entries, event) == Cardinality({i \in DOMAIN entries : entries[i].event = event})

\* The acknowledgment, written out: three entries, indented by four spaces.
AckBody(method, path) ==
    << "{",
       "    \"message\": \"Request processed successfully\",",
       "    \"method\": \"" \o method \o "\",",
       "    \"path\": \"" \o path \o "\"",
       "}", "" >>

\* C12: on a server whose formatType is set but is neither "go" nor "rust",
\* a request with a decodable non-empty JSON body is answered with a status
\* of the 4xx class, no struct text is logged and the acknowledgment is not
\* written.
C12_UnrecognizedTargetIs4xx ==
    (Handled /\ Decodable(req) /\ srv.formatType \notin {"", "go", "rust"}) =>
        /\ resp.status \in 400..499
        /\ Count(logged, "struct") = 0
        /\ resp.body # AckBody(req.method, req.path)

C14_HeadersLogged ==
    Handled => (srv.headers <=> Count(logged, "headers") = 1)

\* An entry of the log has a line that is the text.
Mentions(entry, text) == \E j \in DOMAIN entry.text : entry.text[j] = text

\* C15: for a request whose non-empty JSON body decodes, the JSON body is
\* logged exactly once (one entry, what formatJSON returns for the decoded
\* value, and no other entry carries the body's text), and the struct is
\* logged once if formatType is "go" or "rust" and not at all otherwise.
C15_JSONOnceStructIffFormat ==
    (Handled /\ Decodable(req)) =>
        /\ Count(logged, "json") = 1
        /\ \A i \in DOMAIN logged :
              IF logged[i].event = "json"
              THEN logged[i].text = formatJSON(srv, Unmarshal(req.body).v)
              ELSE ~Mentions(logged[i], TokText(req.body))
        /\ Count(logged, "struct") = (IF srv.formatType \in {"go", "rust"} THEN 1 ELSE 0)
        /\ Count(logged, "struct") = 1 =>
              /\ logged[Len(logged)].event = "struct"
              /\ logged[Len(logged)].text = TextCat(<<"Struct format:", "">>, ret.str)
        /\ srv.formatType = "" => logged[Len(logged)].event = "json"

\* A decodable body was handled with headers on and an unsupported format:
\* the JSON was logged, the struct was not.
C15_Witness ==
    /\ Handled /\ Decodable(req) /\ srv.headers /\ srv.formatType = "java"
    /\ Count(logged, "json") = 1 /\ Count(logged, "struct") = 0
    /\ IsMap(data)

\* The value with everything below its top level removed: every field (or
\* element) keeps its kind and loses its contents.
Hollow(v) ==
    CASE v.kind = "bool" -> GoBool(FALSE)
      [] v.kind = "float64" -> GoFloat64(FALSE, 0, <<>>)
      [] v.kind = "string" -> GoString("")
      [] v.kind = "[]interface{}" -> GoSlice(<<>>)
      [] v.kind = "map[string]interface{}" -> GoMap(EmptyFields)
      [] OTHER -> v

Shallow(v) ==
    IF IsMap(v) THEN GoMap([k \in DOMAIN v.fields |-> Hollow(v.fields[k])]) ELSE Hollow(v)

LineSet(text) == {text[i] : i \in DOMAIN text}

\* The lines that open a declaration.
IsDeclaration(line) ==
    line \in {"type GeneratedStruct struct {", "struct GeneratedStruct {"}

\* The value has a mapping or a non-empty sequence two levels down.
Nested(v) ==
    /\ IsMap(v)
    /\ \E k \in DOMAIN v.fields :
          /\ IsMap(v.fields[k])
          /\ \E n \in DOMAIN v.fields[k].fields :
                v.fields[k].fields[n].kind \in {"[]interface{}", "map[string]interface{}"}

----------------------------------------------------------------------------
(* What concurrent handlers and Start are required to do *)

\* The same request handled alone, its range loop visiting the keys in the
\* same order.
Alone(h) == handleRequest(srv, h.r, h.order)

\* C17: whatever other requests are handled at the same time, a request's
\* response, printed JSON text, rendered declaration and log entries are
\* those of the same request handled alone; and no step of a running server
\* changes the Server's fields.
C17_Isolated ==
    /\ [][srv' = srv]_vars
    /\ [](\A i \in Handlers :
            Done(hs[i]) =>
                /\ hs[i].resp = Alone(hs[i]).resp
                /\ hs[i].printed = Alone(hs[i]).printed
                /\ hs[i].ret = Alone(hs[i]).ret
                /\ hs[i].logged = Alone(hs[i]).logged)

\* Two calls are in flight at the same time: one has decoded and printed a
\* mapping and is about to render it, the other is about to decode the body
\* of a different request.
C17_Witness ==
    \E i, j \in Handlers :
        /\ hs[i].pc = "render" /\ IsMap(bodyDatas[i]) /\ hs[i].printed # NoText
        /\ hs[j].pc = "decode" /\ hs[j].r # hs[i].r

ErrServerClosed == "http: Server closed"

IsPrefix(a, b) == Len(a) <= Len(b) /\ a = SubSeq(b, 1, Len(a))

\* The events of a request with a decodable body, in their order.
EventOrder(s) ==
    <<"request", "decode">>
      \o (IF s.headers THEN <<"headers">> ELSE <<>>)
      \o <<"json">>
      \o (IF s.formatType \in {"go", "rust"} THEN <<"struct">> ELSE <<>>)
      \o <<"response">>

\* C19: the events of a request with a decodable body happen in the order
\* request line, decode, headers (if on), JSON body, struct (if a format is
\* set), response; formatData is not called before the JSON body is logged,
\* so a request whose rendering fails is answered with the error after its
\* JSON body has been logged.
C19_EventOrder ==
    \A i \in Handlers :
        (Busy(hs[i]) /\ Decodable(hs[i].r)) =>
            /\ IsPrefix(hs[i].trace, EventOrder(srv))
            /\ EventsOf(hs[i].logged) = SelectSeq(hs[i].trace,
                                               LAMBDA e : e \notin {"decode", "response"})
            /\ hs[i].ret # NoRet => Count(hs[i].logged, "json") = 1
            /\ Done(hs[i]) =>
                  /\ hs[i].trace = EventOrder(srv)
                  /\ hs[i].ret.err \notin {"nil", "none"} =>
                        /\ hs[i].resp.status = 500
                        /\ hs[i].logged[Len(hs[i].logged)] =
                              LogEntry("json", formatJSON(srv, Unmarshal(hs[i].r.body).v))

\* A request was answered with the formatting error on a server with
\* headers on: its headers and its JSON body are in the log.
C19_Witness ==
    \E i \in Handlers :
        /\ Done(hs[i]) /\ Decodable(hs[i].r) /\ srv.headers
        /\ hs[i].resp.status = 500
        /\ hs[i].trace = <<"request", "decode", "headers", "json", "response">>

\* The four responses handleRequest writes, each with its case.
Outcome(h) ==
    \/ /\ h.resp = HttpError("Error reading request body", 400)
       /\ h.r.contentType = "application/json" /\ h.r.readErr
    \/ /\ h.resp = HttpError("Error parsing JSON", 400)
       /\ Malformed(h.r)
    \/ /\ h.resp = HttpError("Error formatting data: unsupported format type: "
                                \o srv.formatType, 500)
       /\ Decodable(h.r) /\ srv.formatType \notin {"", "go", "rust"}
    \/ /\ h.resp = [status |-> 200, contentType |-> "application/json",
                    body |-> AckBody(h.r.method, h.r.path)]
       /\ ~Malformed(h.r) /\ ~(h.r.contentType = "application/json" /\ h.r.readErr)
       /\ Decodable(h.r) => srv.formatType \in {"", "go", "rust"}

\* C20: a handleRequest call writes exactly one of the four responses, each
\* in its case, and the response is the last thing the call does (nothing is
\* logged and nothing more is written after it); and no call runs forever:
\* every handler is again and again outside a call.
C20_OneOutcome ==
    /\ [](\A i \in Handlers :
            /\ hs[i].writes <= 1
            /\ hs[i].writes = 1 <=> Done(hs[i])
            /\ Done(hs[i]) =>
                  /\ Outcome(hs[i])
                  /\ hs[i].trace[Len(hs[i].trace)] = "response"
                  /\ Count(hs[i].logged, "struct") = 1 => hs[i].resp.status = 200)
    /\ \A i \in Handlers : []<>(~Running(i))

\* One call has ended with the formatting error while another has ended
\* with the read error.
C20_Witness ==
    \E i, j \in Handlers :
        /\ Done(hs[i]) /\ hs[i].resp.status = 500
        /\ Done(hs[j]) /\ hs[j].resp = HttpError("Error reading request body", 400)

----------------------------------------------------------------------------
(* C21: a server started from the command line *)

\* The server the process holds was created by main, and Start has been
\* called on it.
Started == srv # NoServer /\ life.start # "none"

\* C21: in a process started from the command line the format type is
\* validated before the server is created: whenever the server exists, main
\* is past the validation and the server's formatType is the -format flag,
\* one of "", "go" and "rust", and stays so; no handleRequest call gets an
\* error from formatData, and none answers with status 500.
C21_ValidatedFormat ==
    /\ [][srv # NoServer => srv' = srv]_vars
    /\ [](srv # NoServer =>
            /\ main.pc \in {"created", "start", "exited"}
            /\ srv.formatType = main.formatType
            /\ srv.formatType \in {"", "go", "rust"})
    /\ [](\A i \in Handlers :
            /\ hs[i].ret # NoRet => hs[i].ret.err = "nil"
            /\ hs[i].resp # NoResp => hs[i].resp.status # 500)

\* A server started with -format go has answered a request whose body it
\* rendered, while the process runs.
C21_Witness ==
    /\ Started /\ Alive /\ main.formatType = "go"
    /\ \E i \in Handlers :
          /\ Done(hs[i]) /\ Decodable(hs[i].r)
          /\ hs[i].ret # NoRet /\ hs[i].ret.err = "nil"
          /\ Count(hs[i].logged, "struct") = 1
          /\ hs[i].resp.status = 200

=============================================================================
